---- MODULE Spec2Model ----
(***************************************************************************)
(* The go-openai client functions as a state machine.                      *)
(*                                                                         *)
(* Every exported function of the repository is one call that runs         *)
(* through the same straight line: prepare and build the request, set the  *)
(* headers, send, check the status code, decode the body, return.  A call  *)
(* keeps everything in locals; the only package-level state it reads is    *)
(* openaiAPIKey.  Each caller (a goroutine of the embedding program) is a  *)
(* process that makes one call after the other.                            *)
(***************************************************************************)
EXTENDS Integers, Sequences, FiniteSets, TLC

VARIABLES
    openaiAPIKey,   \* the package variable every function reads
    world,          \* the bounded universe the callers and the server draw from
    pc,             \* pc[p]: where caller p is in its current call
    fn,             \* fn[p]: the function p is running
    args,           \* args[p]: the arguments of that call
    req,            \* req[p]: the *http.Request under construction / sent
    resp,           \* resp[p]: what client.Do returned
    decoded,        \* decoded[p]: what the body was decoded into
    ret,            \* ret[p]: the values the call returned
    steps,          \* steps[p]: the steps the call has run so far, in order
    nsent           \* nsent[p]: HTTP exchanges started by the current call

vars == <<openaiAPIKey, world, pc, fn, args, req, resp, decoded, ret, steps, nsent>>

Procs == {"c1", "c2"}

----------------------------------------------------------------------------
(* strings *)

HasPrefix(s, prefix) ==
    /\ Len(s) >= Len(prefix)
    /\ SubSeq(s, 1, Len(prefix)) = prefix

HasSuffix(s, suffix) ==
    /\ Len(s) >= Len(suffix)
    /\ SubSeq(s, Len(s) - Len(suffix) + 1, Len(s)) = suffix

TrimSuffix(s, suffix) ==
    IF HasSuffix(s, suffix) THEN SubSeq(s, 1, Len(s) - Len(suffix)) ELSE s

Contains(s, sub) ==
    \E i \in 1..(Len(s) - Len(sub) + 1) : SubSeq(s, i, i + Len(sub) - 1) = sub

\* strconv.Itoa / fmt.Sprintf("%d") on the integers the model draws
Itoa(n) ==
    LET digit(d) == SubSeq("0123456789", d + 1, d + 1)
        abs == IF n < 0 THEN 0 - n ELSE n
        txt == IF abs < 10 THEN digit(abs)
               ELSE IF abs < 100 THEN digit(abs \div 10) \o digit(abs % 10)
               ELSE digit(abs \div 100) \o digit((abs \div 10) % 10) \o digit(abs % 10)
    IN  IF n < 0 THEN "-" \o txt ELSE txt

----------------------------------------------------------------------------
(* the file system the calls read (no function of the repository writes it) *)

ReadFile(path) ==
    CASE path = "a.ts"  -> [ok |-> TRUE,  content |-> "AB"]
      [] path = "a.tsx" -> [ok |-> TRUE,  content |-> "CD"]
      [] path = "b.txt" -> [ok |-> TRUE,  content |-> "AB"]
      [] OTHER          -> [ok |-> FALSE, content |-> ""]

----------------------------------------------------------------------------
(* crypto/sha1 and encoding/hex *)

\* sha1.New(); hash.Write(content); hash.Sum(nil): the 20 digest bytes, for
\* the contents the file system holds
Sha1Sum(content) ==
    CASE content = "AB" ->
           <<6, 217, 69, 148, 42, 162, 106, 97, 190, 24,
             195, 226, 43, 241, 155, 188, 168, 221, 43, 93>>
      [] content = "CD" ->
           <<7, 48, 108, 142, 60, 133, 55, 143, 63, 122,
             177, 105, 198, 134, 60, 223, 34, 9, 16, 192>>
      [] content = "" ->
           <<218, 57, 163, 238, 94, 107, 75, 13, 50, 85,
             191, 239, 149, 96, 24, 144, 175, 216, 7, 9>>

RECURSIVE HexEncodeToString(_)
HexEncodeToString(bytes) ==
    LET hexdigit(d) == SubSeq("0123456789abcdef", d + 1, d + 1)
    IN  IF bytes = <<>> THEN ""
        ELSE hexdigit(Head(bytes) \div 16) \o hexdigit(Head(bytes) % 16)
                 \o HexEncodeToString(Tail(bytes))

----------------------------------------------------------------------------
(* encoding/json: the values a body parses to *)

JNull    == [kind |-> "null"]
JStr(s)  == [kind |-> "string", val |-> s]
JNum(n)  == [kind |-> "number", val |-> n]
JBool(b) == [kind |-> "bool",   val |-> b]
JArr(a)  == [kind |-> "array",  val |-> a]
JObj(o)  == [kind |-> "object", val |-> o]
NotJSON  == [kind |-> "invalid"]
NoKeys   == [k \in {} |-> JNull]

\* the response bodies the server sends
BodyText       == "upstream timeout"
BodyEmpty      == "{}"
BodyFile       == "{\"id\":\"file-1\",\"filename\":\"a.ts\",\"bytes\":2}"
BodyBadID      == "{\"id\":7}"
BodyList       == "{\"data\":[{\"id\":\"file-1\"},{\"id\":\"file-2\"}]}"
BodyData       == "{\"data\":{\"id\":\"msg-1\",\"role\":\"user\"}}"
BodyErrFile    == "{\"error\":{\"message\":\"bad file\",\"code\":\"unsupported_file\"}}"
BodyErrOther   == "{\"error\":{\"message\":\"no such store\",\"code\":\"not_found\"}}"
BodyErrString  == "{\"error\":\"boom\"}"
BodyEmbedding1 == "{\"object\":\"embedding\",\"embedding\":[1,2]}"
BodyEmbedding2 == "{\"object\":\"embedding\",\"embedding\":[3]}"

\* a list page as the API sends it: {"object":"list","has_more":..,"data":[..]}
\* with k vector store files, numbered file-001, file-002, ...
Pad3(n) ==
    LET digit(d) == SubSeq("0123456789", d + 1, d + 1)
    IN  digit((n \div 100) % 10) \o digit((n \div 10) % 10) \o digit(n % 10)

FileID(i) == "file-" \o Pad3(i)

PageItem(i) == "{\"id\":\"" \o FileID(i) \o "\",\"object\":\"vector_store.file\"}"

\* the items lo..hi, joined by commas
RECURSIVE PageItems(_, _)
PageItems(lo, hi) ==
    IF lo > hi THEN ""
    ELSE IF lo = hi THEN PageItem(lo)
    ELSE LET mid == (lo + hi) \div 2
         IN  PageItems(lo, mid) \o "," \o PageItems(mid + 1, hi)

PageHead(more) ==
    "{\"object\":\"list\",\"has_more\":" \o (IF more THEN "true" ELSE "false")
        \o ",\"data\":["

PageText(k, more) == PageHead(more) \o PageItems(1, k) \o "]}"

\* the number of items of a text that starts like a page
PageCount(text, more) ==
    LET n == Len(text) - Len(PageHead(more)) - 2
    IN  IF n <= 0 THEN 0 ELSE (n + 1) \div (Len(PageItem(1)) + 1)

IsPage(text, more) ==
    /\ HasPrefix(text, PageHead(more))
    /\ text = PageText(PageCount(text, more), more)

PageValue(k, more) ==
    JObj(("object" :> JStr("list")) @@ ("has_more" :> JBool(more))
           @@ ("data" :> JArr([i \in 1..k |->
                                  JObj(("id" :> JStr(FileID(i)))
                                         @@ ("object" :> JStr("vector_store.file")))])))

\* the JSON parser on those bodies
ParseJSON(text) ==
    CASE text = BodyEmpty -> JObj(NoKeys)
      [] IsPage(text, FALSE) -> PageValue(PageCount(text, FALSE), FALSE)
      [] IsPage(text, TRUE) -> PageValue(PageCount(text, TRUE), TRUE)
      [] text = BodyFile ->
           JObj(("id" :> JStr("file-1")) @@ ("filename" :> JStr("a.ts"))
                  @@ ("bytes" :> JNum(2)))
      [] text = BodyBadID -> JObj("id" :> JNum(7))
      [] text = BodyList ->
           JObj("data" :> JArr(<<JObj("id" :> JStr("file-1")),
                                 JObj("id" :> JStr("file-2"))>>))
      [] text = BodyData ->
           JObj("data" :> JObj(("id" :> JStr("msg-1")) @@ ("role" :> JStr("user"))))
      [] text = BodyErrFile ->
           JObj("error" :> JObj(("message" :> JStr("bad file"))
                                  @@ ("code" :> JStr("unsupported_file"))))
      [] text = BodyErrOther ->
           JObj("error" :> JObj(("message" :> JStr("no such store"))
                                  @@ ("code" :> JStr("not_found"))))
      [] text = BodyErrString -> JObj("error" :> JStr("boom"))
      [] text = BodyEmbedding1 ->
           JObj(("object" :> JStr("embedding"))
                  @@ ("embedding" :> JArr(<<JNum(1), JNum(2)>>)))
      [] text = BodyEmbedding2 ->
           JObj(("object" :> JStr("embedding"))
                  @@ ("embedding" :> JArr(<<JNum(3)>>)))
      [] OTHER -> NotJSON

----------------------------------------------------------------------------
(* the struct types the bodies are decoded into: name, Go type, JSON key *)

Fld(n, t, k) == [name |-> n, type |-> t, key |-> k, omitempty |-> FALSE]
Opt(n, t, k) == [name |-> n, type |-> t, key |-> k, omitempty |-> TRUE]

File ==
    << Fld("ID", "string", "id"),
       Fld("CreatedAt", "int64", "created_at"),
       Fld("Bytes", "int64", "bytes"),
       Fld("FileName", "string", "filename"),
       Fld("Purpose", "string", "purpose") >>

\* a second File whose file name is read from another key
File_part000_Renamed ==
    << Fld("ID", "string", "id"),
       Fld("CreatedAt", "int64", "created_at"),
       Fld("Bytes", "int64", "bytes"),
       Fld("FileName", "string", "file_name"),
       Fld("Purpose", "string", "purpose") >>

File_part000 ==
    << Fld("ID", "string", "id"),
       Fld("CreatedAt", "int64", "created_at"),
       Fld("Bytes", "int64", "bytes"),
       Fld("FileName", "string", "filename"),
       Fld("Purpose", "string", "purpose") >>

ErrorDetail ==
    << Fld("Message", "string", "message"),
       Fld("Type", "string", "type"),
       Fld("Param", "string", "param"),
       Fld("Code", "string", "code") >>

ErrorResponse ==
    << Fld("Error", "ErrorDetail", "error") >>

VectorStoreFile ==
    << Fld("ID", "string", "id"),
       Fld("Object", "string", "object"),
       Fld("UsageBytes", "int64", "usage_bytes"),
       Fld("CreatedAt", "int64", "created_at"),
       Fld("VectorStoreID", "string", "vector_store_id"),
       Fld("Status", "string", "status"),
       Opt("LastError", "*map[string]interface{}", "last_error"),
       Opt("ChunkingStrategy", "map[string]interface{}", "chunking_strategy") >>

VectorStoreFileListResponse ==
    << Fld("Data", "[]VectorStoreFile", "data") >>

Thread ==
    << Fld("ID", "string", "id"),
       Fld("Object", "string", "object"),
       Fld("CreatedAt", "int64", "created_at"),
       Opt("Metadata", "map[string]interface{}", "metadata"),
       Opt("ToolResources", "map[string]interface{}", "tool_resources") >>

Message ==
    << Fld("ID", "string", "id"),
       Fld("Object", "string", "object"),
       Fld("CreatedAt", "int64", "created_at"),
       Opt("AssistantID", "*string", "assistant_id"),
       Fld("ThreadID", "string", "thread_id"),
       Opt("RunID", "*string", "run_id"),
       Fld("Role", "string", "role"),
       Fld("Content", "[]MessageContent", "content"),
       Opt("Attachments", "[]interface{}", "attachments"),
       Opt("Metadata", "map[string]interface{}", "metadata") >>

MessageContent ==
    << Fld("Type", "string", "type"),
       Fld("Text", "ContentText", "text") >>

ContentText ==
    << Fld("Value", "string", "value"),
       Opt("Annotations", "[]interface{}", "annotations") >>

Message_part002 ==
    << Fld("ID", "string", "id"),
       Fld("Object", "string", "object"),
       Fld("CreatedAt", "int64", "created_at"),
       Opt("AssistantID", "*string", "assistant_id"),
       Fld("ThreadID", "string", "thread_id"),
       Opt("RunID", "*string", "run_id"),
       Fld("Role", "string", "role"),
       Fld("Content", "[]MessageContent", "content"),
       Opt("Attachments", "[]interface{}", "attachments"),
       Opt("Metadata", "map[string]interface{}", "metadata") >>

MessageContent_part002 ==
    << Fld("Type", "string", "type"),
       Fld("Text", "ContentText", "text") >>

ContentText_part002 ==
    << Fld("Value", "string", "value"),
       Opt("Annotations", "[]interface{}", "annotations") >>

CreateMessageResult ==
    << Fld("Data", "Message", "data") >>

MessageList ==
    << Fld("Data", "[]Message", "data") >>

FileList ==
    << Fld("Data", "[]File", "data") >>

RunUsage ==
    << Fld("PromptTokens", "int", "prompt_tokens"),
       Fld("CompletionTokens", "int", "completion_tokens"),
       Fld("TotalTokens", "int", "total_tokens") >>

Run ==
    << Fld("ID", "string", "id"),
       Fld("Object", "string", "object"),
       Fld("CreatedAt", "int64", "created_at"),
       Fld("AssistantID", "string", "assistant_id"),
       Fld("ThreadID", "string", "thread_id"),
       Fld("Status", "string", "status"),
       Opt("StartedAt", "*int64", "started_at"),
       Opt("ExpiresAt", "*int64", "expires_at"),
       Opt("CancelledAt", "*int64", "cancelled_at"),
       Opt("FailedAt", "*int64", "failed_at"),
       Opt("CompletedAt", "*int64", "completed_at"),
       Opt("LastError", "*string", "last_error"),
       Fld("Model", "string", "model"),
       Opt("Instructions", "*string", "instructions"),
       Opt("Metadata", "map[string]interface{}", "metadata"),
       Opt("IncompleteDetails", "*string", "incomplete_details"),
       Fld("Usage", "RunUsage", "usage"),
       Opt("Temperature", "*float64", "temperature"),
       Opt("TopP", "*float64", "top_p"),
       Opt("MaxPromptTokens", "*int", "max_prompt_tokens"),
       Opt("MaxCompletionTokens", "*int", "max_completion_tokens"),
       Opt("TruncationStrategy", "map[string]interface{}", "truncation_strategy"),
       Fld("ResponseFormat", "string", "response_format"),
       Fld("ToolChoice", "string", "tool_choice"),
       Opt("ParallelToolCalls", "*bool", "parallel_tool_calls") >>

EmbeddingResponse ==
    << Fld("Object", "string", "object"),
       Fld("Embedding", "[]float64", "embedding"),
       Fld("Index", "int", "index") >>

ExpirationPolicy ==
    << Fld("Anchor", "string", "anchor"),
       Fld("Days", "int", "days") >>

VectorStore ==
    << Fld("ID", "string", "id"),
       Fld("Object", "string", "object"),
       Fld("CreatedAt", "int64", "created_at"),
       Fld("Name", "string", "name"),
       Fld("UsageBytes", "int64", "usage_bytes"),
       Fld("Status", "string", "status"),
       Opt("ExpiresAfter", "*ExpirationPolicy", "expires_after"),
       Opt("Metadata", "map[string]string", "metadata"),
       Opt("FileCounts", "map[string]int", "file_counts"),
       Opt("ExpiresAt", "*int64", "expires_at"),
       Opt("LastActiveAt", "*int64", "last_active_at") >>

VectorStoreListResponse ==
    << Fld("Data", "[]VectorStore", "data") >>

Assistant ==
    << Fld("ID", "string", "id"),
       Fld("Name", "string", "name"),
       Fld("Model", "string", "model"),
       Fld("CreatedAt", "int64", "created_at"),
       Fld("Status", "string", "status"),
       Fld("Description", "string", "description") >>

AssistantList ==
    << Fld("Data", "[]Assistant", "data") >>

\* the declaration a type name resolves to in the compilation unit that uses it
StructDef(unit, name) ==
    CASE name = "File" -> IF unit = "part_000" THEN File_part000 ELSE File
      [] name = "Message" -> IF unit = "part_002" THEN Message_part002 ELSE Message
      [] name = "MessageContent" ->
           IF unit = "part_002" THEN MessageContent_part002 ELSE MessageContent
      [] name = "ContentText" ->
           IF unit = "part_002" THEN ContentText_part002 ELSE ContentText
      [] name = "ErrorDetail" -> ErrorDetail
      [] name = "ErrorResponse" -> ErrorResponse
      [] name = "VectorStoreFile" -> VectorStoreFile
      [] name = "VectorStoreFileListResponse" -> VectorStoreFileListResponse
      [] name = "Thread" -> Thread
      [] name = "CreateMessageResult" -> CreateMessageResult
      [] name = "MessageList" -> MessageList
      [] name = "FileList" -> FileList
      [] name = "RunUsage" -> RunUsage
      [] name = "Run" -> Run
      [] name = "EmbeddingResponse" -> EmbeddingResponse
      [] name = "ExpirationPolicy" -> ExpirationPolicy
      [] name = "VectorStore" -> VectorStore
      [] name = "VectorStoreListResponse" -> VectorStoreListResponse
      [] name = "Assistant" -> Assistant
      [] name = "AssistantList" -> AssistantList

StringTypes == {"string"}
NumberTypes == {"int", "int64", "float64"}
BoolTypes   == {"bool"}

\* the zero value of a Go type; nil pointers, slices, maps and interfaces are <<>>
RECURSIVE Zero(_, _)
Zero(unit, t) ==
    IF t \in StringTypes THEN ""
    ELSE IF t \in NumberTypes THEN 0
    ELSE IF t \in BoolTypes THEN FALSE
    ELSE IF HasPrefix(t, "*") \/ HasPrefix(t, "[]") \/ HasPrefix(t, "map[")
            \/ t = "interface{}" THEN <<>>
    ELSE LET def == StructDef(unit, t)
         IN  [n \in {def[i].name : i \in 1..Len(def)} |->
                 Zero(unit, (CHOOSE f \in {def[i] : i \in 1..Len(def)} : f.name = n).type)]

\* json.Decoder.Decode / json.Unmarshal of a parsed value into a Go value of
\* type t: [ok, val]; a JSON value of the wrong kind for its field is an error
RECURSIVE DecodeValue(_, _, _)
DecodeValue(unit, t, v) ==
    IF v.kind = "null" THEN [ok |-> TRUE, val |-> Zero(unit, t)]
    ELSE IF t = "interface{}" THEN [ok |-> TRUE, val |-> <<v>>]
    ELSE IF HasPrefix(t, "map[") THEN
        [ok |-> v.kind = "object", val |-> IF v.kind = "object" THEN <<v>> ELSE <<>>]
    ELSE IF HasPrefix(t, "*") THEN
        LET r == DecodeValue(unit, SubSeq(t, 2, Len(t)), v)
        IN  [ok |-> r.ok, val |-> IF r.ok THEN <<r.val>> ELSE <<>>]
    ELSE IF HasPrefix(t, "[]") THEN
        IF v.kind # "array" THEN [ok |-> FALSE, val |-> <<>>]
        ELSE LET rs == [i \in 1..Len(v.val) |->
                           DecodeValue(unit, SubSeq(t, 3, Len(t)), v.val[i])]
             IN  [ok |-> \A i \in 1..Len(rs) : rs[i].ok,
                  val |-> [i \in 1..Len(rs) |-> rs[i].val]]
    ELSE IF t \in StringTypes THEN
        [ok |-> v.kind = "string", val |-> IF v.kind = "string" THEN v.val ELSE ""]
    ELSE IF t \in NumberTypes THEN
        [ok |-> v.kind = "number", val |-> IF v.kind = "number" THEN v.val ELSE 0]
    ELSE IF t \in BoolTypes THEN
        [ok |-> v.kind = "bool", val |-> IF v.kind = "bool" THEN v.val ELSE FALSE]
    ELSE IF v.kind # "object" THEN [ok |-> FALSE, val |-> Zero(unit, t)]
    ELSE LET def  == StructDef(unit, t)
             flds == {def[i] : i \in 1..Len(def)}
             one(f) == IF f.key \in DOMAIN v.val
                       THEN DecodeValue(unit, f.type, v.val[f.key])
                       ELSE [ok |-> TRUE, val |-> Zero(unit, f.type)]
         IN  [ok  |-> \A f \in flds : one(f).ok,
              val |-> [n \in {f.name : f \in flds} |->
                          one(CHOOSE f \in flds : f.name = n).val]]

\* json.NewDecoder(resp.Body).Decode(&x) with x of type t: parse, then decode
Decode(unit, t, body) ==
    IF ParseJSON(body).kind = "invalid" THEN [ok |-> FALSE, val |-> Zero(unit, t)]
    ELSE DecodeValue(unit, t, ParseJSON(body))

----------------------------------------------------------------------------
(* net/http *)

StatusOK      == 200
StatusCreated == 201

\* resp.Status for the codes the server answers with
StatusLine(code) ==
    CASE code = 200 -> "200 OK"
      [] code = 201 -> "201 Created"
      [] code = 400 -> "400 Bad Request"
      [] code = 404 -> "404 Not Found"
      [] OTHER      -> Itoa(code) \o " "

\* http.NewRequest fails when the URL does not parse (an invalid % escape)
NewRequestOK(url) == ~Contains(url, "%zz")

NoBody == [kind |-> "none"]
JsonBody(text) == [kind |-> "json", text |-> text]

\* json.Marshal of a string without characters that need escaping
Quote(s) == "\"" \o s \o "\""

\* url.QueryEscape: letters, digits and -_.~ stay, a space becomes "+", any
\* other byte %XX
EscapeByte(c) ==
    CASE c = " " -> "+"
      [] c = "%" -> "%25"
      [] c = "&" -> "%26"
      [] c = "+" -> "%2B"
      [] c = "/" -> "%2F"
      [] c = "=" -> "%3D"
      [] c = "?" -> "%3F"
      [] OTHER   -> c

RECURSIVE QueryEscape(_)
QueryEscape(s) ==
    IF s = "" THEN ""
    ELSE EscapeByte(SubSeq(s, 1, 1)) \o QueryEscape(SubSeq(s, 2, Len(s)))

\* a url.Values.Encode that writes the values as they are
QueryEncode_Raw(q) ==
    LET keys == <<"after", "before", "limit", "order", "run_id">>
        pair(k) == k \o "=" \o q[k]
        join[i \in 0..Len(keys)] ==
            IF i = 0 THEN ""
            ELSE IF keys[i] \notin DOMAIN q THEN join[i - 1]
            ELSE IF join[i - 1] = "" THEN pair(keys[i])
            ELSE join[i - 1] \o "&" \o pair(keys[i])
    IN  join[Len(keys)]

\* url.Values.Encode: the keys present, sorted, each with its value escaped,
\* joined by "&"
QueryEncode(q) ==
    LET keys == <<"after", "before", "limit", "order", "run_id">>
        pair(k) == k \o "=" \o QueryEscape(q[k])
        join[i \in 0..Len(keys)] ==
            IF i = 0 THEN ""
            ELSE IF keys[i] \notin DOMAIN q THEN join[i - 1]
            ELSE IF join[i - 1] = "" THEN pair(keys[i])
            ELSE join[i - 1] \o "&" \o pair(keys[i])
    IN  join[Len(keys)]

\* the "if x != ..." blocks that fill the query of the list functions
Param(cond, k, v) == IF cond THEN k :> v ELSE [x \in {} |-> ""]

----------------------------------------------------------------------------
(* the client functions: what each one prepares, sends, accepts and decodes *)
(* a is the argument record of the call                                     *)

BaseURL == "https://api.openai.com/v1"

\* escapeQuotes of mime/multipart: a backslash before every backslash and quote
RECURSIVE EscapeQuotes(_)
EscapeQuotes(s) ==
    IF s = "" THEN ""
    ELSE (IF SubSeq(s, 1, 1) \in {"\\", "\""} THEN "\\" ELSE "")
            \o SubSeq(s, 1, 1) \o EscapeQuotes(SubSeq(s, 2, Len(s)))

\* multiWriter.CreateFormField(name) and the bytes written to it
FormField(name, data) ==
    [ field |-> name, filename |-> "",
      disposition |-> "form-data; name=\"" \o EscapeQuotes(name) \o "\"",
      data |-> data ]

\* multiWriter.CreateFormFile(name, filename) and the bytes written to it
FormFile(name, filename, data) ==
    [ field |-> name, filename |-> filename,
      disposition |-> "form-data; name=\"" \o EscapeQuotes(name)
                         \o "\"; filename=\"" \o EscapeQuotes(filename) \o "\"",
      data |-> data ]

\* an UploadContent that writes the file before the purpose
UploadContent_FileFirst(a) ==
    [ unit |-> "files.go", pre |-> "", library |-> FALSE,
      method |-> "POST", url |-> BaseURL \o "/files",
      body |-> [kind |-> "multipart", boundary |-> a.boundary,
                parts |-> << FormFile("file", a.path, a.content),
                             FormField("purpose", "user_data") >>],
      contentType |-> "multipart/form-data; boundary=" \o a.boundary, beta |-> FALSE,
      accept |-> {StatusOK},
      newReqErr |-> "failed to create request: ",
      sendErr |-> "request failed: ",
      statusErr |-> "upload failed with status ",
      decodeErr |-> "failed to decode response: ",
      target |-> "File", result |-> "id" ]

UploadContent(a) ==
    [ unit |-> "files.go", pre |-> "", library |-> FALSE,
      method |-> "POST", url |-> BaseURL \o "/files",
      body |-> [kind |-> "multipart", boundary |-> a.boundary,
                parts |-> << FormField("purpose", "user_data"),
                             FormFile("file", a.path, a.content) >>],
      contentType |-> "multipart/form-data; boundary=" \o a.boundary, beta |-> FALSE,
      accept |-> {StatusOK},
      newReqErr |-> "failed to create request: ",
      sendErr |-> "request failed: ",
      statusErr |-> "upload failed with status ",
      decodeErr |-> "failed to decode response: ",
      target |-> "File", result |-> "id" ]

\* an UploadFile that renames the path before it reads the file
UploadFile_ReadsRenamed(a) ==
    LET path == IF HasSuffix(a.path, ".tsx")
                THEN TrimSuffix(a.path, ".tsx") \o ".ts" ELSE a.path
        file == ReadFile(path)
    IN  IF ~file.ok
        THEN [UploadContent(a) EXCEPT
                !.pre = "failed to read file: open " \o a.path \o ": no such file or directory"]
        ELSE UploadContent([a EXCEPT !.path = path, !.content = file.content])

UploadFile(a) ==
    LET file == ReadFile(a.path)
        path == IF HasSuffix(a.path, ".tsx")
                THEN TrimSuffix(a.path, ".tsx") \o ".ts" ELSE a.path
    IN  IF ~file.ok
        THEN [UploadContent(a) EXCEPT
                !.pre = "failed to read file: open " \o a.path \o ": no such file or directory"]
        ELSE UploadContent([a EXCEPT !.path = path, !.content = file.content])

ListFiles(a) ==
    [ unit |-> "files.go", pre |-> "", library |-> FALSE,
      method |-> "GET", url |-> BaseURL \o "/files", body |-> NoBody,
      contentType |-> "", beta |-> FALSE,
      accept |-> {StatusOK},
      newReqErr |-> "failed to create request: ",
      sendErr |-> "request failed: ",
      statusErr |-> "retrieving files failed with status ",
      decodeErr |-> "failed to decode response: ",
      target |-> "FileList", result |-> "data" ]

RetrieveFile(a) ==
    [ unit |-> "files.go", pre |-> "", library |-> FALSE,
      method |-> "GET", url |-> BaseURL \o "/files/" \o a.id, body |-> NoBody,
      contentType |-> "application/json", beta |-> FALSE,
      accept |-> {StatusOK},
      newReqErr |-> "failed to create retrieve file request: ",
      sendErr |-> "file retrieval request failed: ",
      statusErr |-> "file retrieval failed with status ",
      decodeErr |-> "failed to decode file retrieval response: ",
      target |-> "File", result |-> "struct" ]

DeleteFile(a) ==
    [ unit |-> "files.go", pre |-> "", library |-> FALSE,
      method |-> "DELETE", url |-> BaseURL \o "/files/" \o a.id, body |-> NoBody,
      contentType |-> "", beta |-> FALSE,
      accept |-> {StatusOK},
      newReqErr |-> "failed to create delete request: ",
      sendErr |-> "delete request failed: ",
      statusErr |-> "file deletion failed with status ",
      decodeErr |-> "",
      target |-> "", result |-> "none" ]

CreateVectorStoreFile(a) ==
    [ unit |-> "files.go", pre |-> "", library |-> FALSE,
      method |-> "POST", url |-> BaseURL \o "/vector_stores/" \o a.id \o "/files",
      body |-> JsonBody("{\"chunking_strategy\":null,\"file_id\":" \o Quote(a.id2) \o "}"),
      contentType |-> "application/json", beta |-> TRUE,
      accept |-> {StatusOK},
      newReqErr |-> "failed to create vector store file request: ",
      sendErr |-> "vector store file request failed: ",
      statusErr |-> "vector store file creation failed with status ",
      decodeErr |-> "failed to decode vector store file response: ",
      target |-> "VectorStoreFile", result |-> "struct" ]

ListVectorStoreFiles(a) ==
    [ unit |-> "files.go", pre |-> "", library |-> FALSE,
      method |-> "GET",
      url |-> BaseURL \o "/vector_stores/" \o a.id \o "/files?limit=100",
      body |-> NoBody,
      contentType |-> "application/json", beta |-> TRUE,
      accept |-> {StatusOK},
      newReqErr |-> "failed to create list vector store files request: ",
      sendErr |-> "list vector store files request failed: ",
      statusErr |-> "list vector store files failed with status ",
      decodeErr |-> "failed to decode list vector store files response: ",
      target |-> "VectorStoreFileListResponse", result |-> "data" ]

RetrieveVectorStoreFile(a) ==
    [ unit |-> "files.go", pre |-> "", library |-> FALSE,
      method |-> "GET",
      url |-> BaseURL \o "/vector_stores/" \o a.id \o "/files/" \o a.id2,
      body |-> NoBody,
      contentType |-> "application/json", beta |-> TRUE,
      accept |-> {StatusOK},
      newReqErr |-> "failed to create retrieve vector store file request: ",
      sendErr |-> "retrieve vector store file request failed: ",
      statusErr |-> "retrieve vector store file failed with status ",
      decodeErr |-> "failed to decode retrieve vector store file response: ",
      target |-> "VectorStoreFile", result |-> "struct" ]

DeleteVectorStoreFile(a) ==
    [ unit |-> "files.go", pre |-> "", library |-> FALSE,
      method |-> "DELETE",
      url |-> BaseURL \o "/vector_stores/" \o a.id \o "/files/" \o a.id2,
      body |-> NoBody,
      contentType |-> "application/json", beta |-> TRUE,
      accept |-> {StatusOK},
      newReqErr |-> "failed to create delete vector store file request: ",
      sendErr |-> "delete vector store file request failed: ",
      statusErr |-> "delete vector store file failed with status ",
      decodeErr |-> "",
      target |-> "", result |-> "none" ]

CreateThread(a) ==
    [ unit |-> "files.go", pre |-> "", library |-> FALSE,
      method |-> "POST", url |-> BaseURL \o "/threads",
      body |-> JsonBody(IF a.text = "" THEN "{}"
                        ELSE "{\"messages\":[{\"role\":\"user\",\"content\":"
                                 \o Quote(a.text) \o "}]}"),
      contentType |-> "application/json", beta |-> TRUE,
      accept |-> {StatusOK},
      newReqErr |-> "failed to create thread request: ",
      sendErr |-> "thread request failed: ",
      statusErr |-> "thread creation failed with status ",
      decodeErr |-> "failed to decode thread response: ",
      target |-> "Thread", result |-> "struct" ]

\* a CreateMessage that checks the role before the thread ID
CreateMessage_RoleFirst(a) ==
    [ unit |-> "message.go",
      pre |-> IF a.role = "" THEN "role is required"
              ELSE IF a.id = "" THEN "threadID is required"
              ELSE IF a.text = "" THEN "content is required"
              ELSE "",
      library |-> FALSE,
      method |-> "POST", url |-> BaseURL \o "/threads/" \o a.id \o "/messages",
      body |-> JsonBody("{\"content\":" \o Quote(a.text) \o ",\"role\":"
                            \o Quote(a.role) \o "}"),
      contentType |-> "application/json", beta |-> TRUE,
      accept |-> {StatusOK, StatusCreated},
      newReqErr |-> "failed to create request to create message: ",
      sendErr |-> "request to create message failed: ",
      statusErr |-> "failed to create message with status ",
      decodeErr |-> "failed to decode message response: ",
      target |-> "CreateMessageResult", result |-> "datastruct" ]

CreateMessage(a) ==
    [ unit |-> "message.go",
      pre |-> IF a.id = "" THEN "threadID is required"
              ELSE IF a.role = "" THEN "role is required"
              ELSE IF a.text = "" THEN "content is required"
              ELSE "",
      library |-> FALSE,
      method |-> "POST", url |-> BaseURL \o "/threads/" \o a.id \o "/messages",
      body |-> JsonBody("{\"content\":" \o Quote(a.text) \o ",\"role\":"
                            \o Quote(a.role) \o "}"),
      contentType |-> "application/json", beta |-> TRUE,
      accept |-> {StatusOK, StatusCreated},
      newReqErr |-> "failed to create request to create message: ",
      sendErr |-> "request to create message failed: ",
      statusErr |-> "failed to create message with status ",
      decodeErr |-> "failed to decode message response: ",
      target |-> "CreateMessageResult", result |-> "datastruct" ]

ListMessages(a) ==
    LET q == Param(a.limit > 0, "limit", Itoa(a.limit))
               @@ Param(a.order # "", "order", a.order)
               @@ Param(a.after # "", "after", a.after)
               @@ Param(a.before # "", "before", a.before)
               @@ Param(a.runID # "", "run_id", a.runID)
    IN
    [ unit |-> "message.go", pre |-> "", library |-> FALSE,
      method |-> "GET",
      url |-> BaseURL \o "/threads/" \o a.id \o "/messages"
                 \o (IF QueryEncode(q) = "" THEN "" ELSE "?" \o QueryEncode(q)),
      body |-> NoBody,
      contentType |-> "application/json", beta |-> TRUE,
      accept |-> {StatusOK},
      newReqErr |-> "failed to create request to list messages: ",
      sendErr |-> "request to list messages failed: ",
      statusErr |-> "failed to list messages with status ",
      decodeErr |-> "failed to decode messages response: ",
      target |-> "MessageList", result |-> "data" ]

RECURSIVE IncludeQuery(_)
IncludeQuery(include) ==
    IF include = <<>> THEN ""
    ELSE IF Len(include) = 1 THEN "?include=" \o include[1]
    ELSE IncludeQuery(SubSeq(include, 1, Len(include) - 1))
             \o "&include=" \o include[Len(include)]

CreateRun(a) ==
    [ unit |-> "run.go", pre |-> "", library |-> FALSE,
      method |-> "POST",
      url |-> BaseURL \o "/threads/" \o a.id \o "/runs" \o IncludeQuery(a.include),
      body |-> JsonBody("{\"assistant_id\":" \o Quote(a.id2) \o "}"),
      contentType |-> "application/json", beta |-> TRUE,
      accept |-> {StatusOK},
      newReqErr |-> "failed to create run request: ",
      sendErr |-> "run request failed: ",
      statusErr |-> "run creation failed with status ",
      decodeErr |-> "failed to decode run response: ",
      target |-> "Run", result |-> "struct" ]

RetrieveRun(a) ==
    [ unit |-> "run.go", pre |-> "", library |-> FALSE,
      method |-> "GET",
      url |-> BaseURL \o "/threads/" \o a.id \o "/runs/" \o a.id2,
      body |-> NoBody,
      contentType |-> "application/json", beta |-> TRUE,
      accept |-> {StatusOK},
      newReqErr |-> "failed to create get run request: ",
      sendErr |-> "run retrieval request failed: ",
      statusErr |-> "run retrieval failed with status ",
      decodeErr |-> "failed to decode run response: ",
      target |-> "Run", result |-> "struct" ]

CreateEmbedding(a) ==
    [ unit |-> "embeddings.go",
      pre |-> IF ReadFile(a.path).ok THEN ""
              ELSE "failed to read file " \o a.path \o ": open " \o a.path
                       \o ": no such file or directory",
      library |-> TRUE,
      method |-> "POST", url |-> BaseURL \o "/embeddings",
      body |-> JsonBody("{\"input\":[" \o Quote(ReadFile(a.path).content)
                            \o "],\"model\":\"text-embedding-ada-002\"}"),
      contentType |-> "application/json", beta |-> FALSE,
      accept |-> {StatusOK},
      newReqErr |-> "error creating embedding: ",
      sendErr |-> "error creating embedding: ",
      statusErr |-> "error creating embedding: ",
      decodeErr |-> "error creating embedding: ",
      target |-> "", result |-> "hash" ]

CreateVectorForFile(a) ==
    [ unit |-> "embeddings.go",
      pre |-> IF ReadFile(a.path).ok THEN ""
              ELSE "failed to read file " \o a.path \o ": open " \o a.path
                       \o ": no such file or directory",
      library |-> FALSE,
      method |-> "POST", url |-> BaseURL \o "/embeddings",
      body |-> JsonBody("{\"input\":" \o Quote(ReadFile(a.path).content)
                            \o ",\"model\":\"text-embedding-ada-002\"}"),
      contentType |-> "application/json", beta |-> FALSE,
      accept |-> {StatusOK},
      newReqErr |-> "failed to create embedding request: ",
      sendErr |-> "embedding request failed: ",
      statusErr |-> "embedding creation failed with status ",
      decodeErr |-> "failed to decode embedding response: ",
      target |-> "EmbeddingResponse", result |-> "hash" ]

CreateVectorStore(a) ==
    [ unit |-> "vectorstore.go", pre |-> "", library |-> FALSE,
      method |-> "POST", url |-> BaseURL \o "/vector_stores",
      body |-> JsonBody(IF a.name = "" THEN "{}"
                        ELSE "{\"name\":" \o Quote(a.name) \o "}"),
      contentType |-> "application/json", beta |-> TRUE,
      accept |-> {StatusOK},
      newReqErr |-> "failed to create vector store request: ",
      sendErr |-> "vector store request failed: ",
      statusErr |-> "vector store creation failed with status ",
      decodeErr |-> "failed to decode vector store response: ",
      target |-> "VectorStore", result |-> "struct" ]

ListVectorStores(a) ==
    LET params == Param(a.limit > 0, "limit", Itoa(a.limit))
                    @@ Param(a.order # "", "order", a.order)
                    @@ Param(a.after # "", "after", a.after)
                    @@ Param(a.before # "", "before", a.before)
    IN
    [ unit |-> "vectorstore.go", pre |-> "", library |-> FALSE,
      method |-> "GET",
      url |-> BaseURL \o "/vector_stores" \o "?" \o QueryEncode(params),
      body |-> NoBody,
      contentType |-> "application/json", beta |-> TRUE,
      accept |-> {StatusOK},
      newReqErr |-> "failed to create list vector stores request: ",
      sendErr |-> "list vector stores request failed: ",
      statusErr |-> "list vector stores failed with status ",
      decodeErr |-> "failed to decode list vector stores response: ",
      target |-> "VectorStoreListResponse", result |-> "data" ]

RetrieveVectorStore(a) ==
    [ unit |-> "vectorstore.go", pre |-> "", library |-> FALSE,
      method |-> "GET", url |-> BaseURL \o "/vector_stores/" \o a.id,
      body |-> NoBody,
      contentType |-> "application/json", beta |-> TRUE,
      accept |-> {StatusOK},
      newReqErr |-> "failed to create retrieve vector store request: ",
      sendErr |-> "retrieve vector store request failed: ",
      statusErr |-> "retrieve vector store failed with status ",
      decodeErr |-> "failed to decode retrieve vector store response: ",
      target |-> "VectorStore", result |-> "struct" ]

DeleteVectorStore(a) ==
    [ unit |-> "vectorstore.go", pre |-> "", library |-> FALSE,
      method |-> "DELETE", url |-> BaseURL \o "/vector_stores/" \o a.id,
      body |-> NoBody,
      contentType |-> "application/json", beta |-> TRUE,
      accept |-> {StatusOK},
      newReqErr |-> "failed to create delete vector store request: ",
      sendErr |-> "delete vector store request failed: ",
      statusErr |-> "delete vector store failed with status ",
      decodeErr |-> "",
      target |-> "", result |-> "none" ]

UploadFile_part000(a) ==
    [ unit |-> "part_000",
      pre |-> IF ReadFile(a.path).ok THEN ""
              ELSE "failed to open file: open " \o a.path \o ": no such file or directory",
      library |-> FALSE,
      method |-> "POST", url |-> BaseURL \o "/files",
      body |-> [kind |-> "multipart", boundary |-> a.boundary,
                parts |-> << FormField("purpose", "user_data"),
                             FormFile("file", a.path, ReadFile(a.path).content) >>],
      contentType |-> "multipart/form-data; boundary=" \o a.boundary, beta |-> FALSE,
      accept |-> {StatusOK},
      newReqErr |-> "failed to create request: ",
      sendErr |-> "request failed: ",
      statusErr |-> "upload failed with status ",
      decodeErr |-> "failed to decode response: ",
      target |-> "File", result |-> "id" ]

ListFiles_part000(a) ==
    [ListFiles(a) EXCEPT !.unit = "part_000"]

RetrieveFile_part000(a) ==
    [RetrieveFile(a) EXCEPT !.unit = "part_000"]

DeleteFile_part000(a) ==
    [DeleteFile(a) EXCEPT !.unit = "part_000"]

ListAssistants(a) ==
    [ unit |-> "part_001", pre |-> "", library |-> FALSE,
      method |-> "GET", url |-> BaseURL \o "/assistants", body |-> NoBody,
      contentType |-> "", beta |-> TRUE,
      accept |-> {StatusOK},
      newReqErr |-> "failed to create request: ",
      sendErr |-> "request failed: ",
      statusErr |-> "retrieving assistants failed with status ",
      decodeErr |-> "failed to decode response: ",
      target |-> "AssistantList", result |-> "data" ]

CreateAssistant(a) ==
    [ unit |-> "part_001", pre |-> "", library |-> FALSE,
      method |-> "POST", url |-> BaseURL \o "/assistants",
      body |-> JsonBody("{\"model\":" \o Quote(a.name) \o "}"),
      contentType |-> "application/json", beta |-> TRUE,
      accept |-> {StatusOK},
      newReqErr |-> "failed to create assistant request: ",
      sendErr |-> "assistant request failed: ",
      statusErr |-> "assistant creation failed with status ",
      decodeErr |-> "failed to decode assistant response: ",
      target |-> "map[string]interface{}", result |-> "mapid" ]

DeleteAssistant(a) ==
    [ unit |-> "part_001", pre |-> "", library |-> FALSE,
      method |-> "DELETE", url |-> BaseURL \o "/assistants/" \o a.id,
      body |-> NoBody,
      contentType |-> "", beta |-> TRUE,
      accept |-> {StatusOK},
      newReqErr |-> "failed to create delete request: ",
      sendErr |-> "delete request failed: ",
      statusErr |-> "assistant deletion failed with status ",
      decodeErr |-> "",
      target |-> "", result |-> "none" ]

ListMessages_part002(a) ==
    [ListMessages(a) EXCEPT !.unit = "part_002"]

\* the function a name stands for
Plan(f, a) ==
    CASE f = "UploadFile" -> UploadFile(a)
      [] f = "UploadContent" -> UploadContent(a)
      [] f = "ListFiles" -> ListFiles(a)
      [] f = "RetrieveFile" -> RetrieveFile(a)
      [] f = "DeleteFile" -> DeleteFile(a)
      [] f = "CreateVectorStoreFile" -> CreateVectorStoreFile(a)
      [] f = "ListVectorStoreFiles" -> ListVectorStoreFiles(a)
      [] f = "RetrieveVectorStoreFile" -> RetrieveVectorStoreFile(a)
      [] f = "DeleteVectorStoreFile" -> DeleteVectorStoreFile(a)
      [] f = "CreateThread" -> CreateThread(a)
      [] f = "CreateMessage" -> CreateMessage(a)
      [] f = "ListMessages" -> ListMessages(a)
      [] f = "CreateRun" -> CreateRun(a)
      [] f = "RetrieveRun" -> RetrieveRun(a)
      [] f = "CreateEmbedding" -> CreateEmbedding(a)
      [] f = "CreateVectorForFile" -> CreateVectorForFile(a)
      [] f = "CreateVectorStore" -> CreateVectorStore(a)
      [] f = "ListVectorStores" -> ListVectorStores(a)
      [] f = "RetrieveVectorStore" -> RetrieveVectorStore(a)
      [] f = "DeleteVectorStore" -> DeleteVectorStore(a)
      [] f = "UploadFile_part000" -> UploadFile_part000(a)
      [] f = "ListFiles_part000" -> ListFiles_part000(a)
      [] f = "RetrieveFile_part000" -> RetrieveFile_part000(a)
      [] f = "DeleteFile_part000" -> DeleteFile_part000(a)
      [] f = "ListAssistants" -> ListAssistants(a)
      [] f = "CreateAssistant" -> CreateAssistant(a)
      [] f = "DeleteAssistant" -> DeleteAssistant(a)
      [] f = "ListMessages_part002" -> ListMessages_part002(a)

Functions ==
    { "UploadFile", "UploadContent", "ListFiles", "RetrieveFile", "DeleteFile",
      "CreateVectorStoreFile", "ListVectorStoreFiles", "RetrieveVectorStoreFile",
      "DeleteVectorStoreFile", "CreateThread", "CreateMessage", "ListMessages",
      "CreateRun", "RetrieveRun", "CreateEmbedding", "CreateVectorForFile",
      "CreateVectorStore", "ListVectorStores", "RetrieveVectorStore",
      "DeleteVectorStore", "UploadFile_part000", "ListFiles_part000",
      "RetrieveFile_part000", "DeleteFile_part000", "ListAssistants",
      "CreateAssistant", "DeleteAssistant", "ListMessages_part002" }

----------------------------------------------------------------------------
(* what a call returns *)

NilErr == [type |-> "nil", msg |-> ""]
Errorf(msg) == [type |-> "error", msg |-> msg]

\* the zero value returned next to an error: "" for the functions that return
\* a string, nil (<<>>) for those that return a pointer, a slice or only an error
ZeroVal(result) == IF result \in {"id", "mapid", "hash"} THEN "" ELSE <<>>

Failure(plan, err) == [val |-> ZeroVal(plan.result), err |-> err]

\* a status check that lets every 2xx status through
StatusAccepted_Any2xx(plan, r) == r.code \in 200..299

\* the condition of the status check: resp.StatusCode is one the function accepts
StatusAccepted(plan, r) == r.code \in plan.accept

\* a status error that leaves the body out
StatusError_NoBody(plan, r) ==
    Errorf(plan.statusErr \o r.status)

\* the "if resp.StatusCode != http.StatusOK" block all functions but one share
StatusError(plan, r) ==
    Errorf(plan.statusErr \o r.status \o ": " \o r.body)

\* &UnsupportedFileTypeError{FileName: name}, with the text of its Error()
UnsupportedFileTypeError(name) ==
    [type |-> "UnsupportedFileTypeError", FileName |-> name,
     msg |-> "unsupported file type for file: " \o name]

\* a classification that names the vector store instead of the file
VectorStoreFileError_StoreID(plan, a, r) ==
    LET errorResp == Decode(plan.unit, "ErrorResponse", r.body)
    IN  IF ~errorResp.ok THEN StatusError(plan, r)
        ELSE IF errorResp.val.Error.Code = "unsupported_file"
        THEN UnsupportedFileTypeError(a.id)
        ELSE Errorf("vector store file creation failed: " \o errorResp.val.Error.Message)

\* the same block in CreateVectorStoreFile, which looks into the body
VectorStoreFileError(plan, a, r) ==
    LET errorResp == Decode(plan.unit, "ErrorResponse", r.body)
    IN  IF ~errorResp.ok THEN StatusError(plan, r)
        ELSE IF errorResp.val.Error.Code = "unsupported_file"
        THEN UnsupportedFileTypeError(a.id2)
        ELSE Errorf("vector store file creation failed: " \o errorResp.val.Error.Message)

\* response["id"].(string) on the decoded map[string]interface{}
MapID(m) ==
    IF m = <<>> THEN ""
    ELSE IF "id" \in DOMAIN m[1].val /\ m[1].val["id"].kind = "string"
    THEN m[1].val["id"].val
    ELSE ""

\* an ID taken from a hash nothing was written to
EmbeddingID_NoWrite(a) == HexEncodeToString(Sha1Sum(""))

\* the ID the embedding functions return: hex of the SHA-1 of the file content
EmbeddingID(a) == HexEncodeToString(Sha1Sum(ReadFile(a.path).content))

\* a tail that hands back the whole decoded value where the function hands
\* back its Data member
Result_WholeBody(plan, a, d) ==
    CASE plan.result = "id"         -> [val |-> d.ID, err |-> NilErr]
      [] plan.result = "struct"     -> [val |-> <<d>>, err |-> NilErr]
      [] plan.result = "data"       -> [val |-> d.Data, err |-> NilErr]
      [] plan.result = "datastruct" -> [val |-> <<d>>, err |-> NilErr]
      [] plan.result = "mapid"      -> [val |-> MapID(d), err |-> NilErr]
      [] plan.result = "hash" ->
           IF Len(d.Embedding) = 0
           THEN Failure(plan, Errorf("no embedding data returned for file '"
                                         \o a.path \o "'"))
           ELSE [val |-> EmbeddingID(a), err |-> NilErr]

\* the tail of a function, after the body decoded without error into d
Result(plan, a, d) ==
    CASE plan.result = "id"         -> [val |-> d.ID, err |-> NilErr]
      [] plan.result = "struct"     -> [val |-> <<d>>, err |-> NilErr]
      [] plan.result = "data"       -> [val |-> d.Data, err |-> NilErr]
      [] plan.result = "datastruct" -> [val |-> <<d.Data>>, err |-> NilErr]
      [] plan.result = "mapid"      -> [val |-> MapID(d), err |-> NilErr]
      [] plan.result = "hash" ->
           IF Len(d.Embedding) = 0
           THEN Failure(plan, Errorf("no embedding data returned for file '"
                                         \o a.path \o "'"))
           ELSE [val |-> EmbeddingID(a), err |-> NilErr]

\* the tail of CreateEmbedding, after client.CreateEmbeddings returned r
LibraryResult(plan, a, r) ==
    IF r.err # "" THEN Failure(plan, Errorf(plan.sendErr \o r.err))
    ELSE IF Len(r.data) = 0 \/ Len(r.data[1]) = 0
    THEN Failure(plan, Errorf("no embedding data returned"))
    ELSE [val |-> EmbeddingID(a), err |-> NilErr]

\* req.Header.Set(...): the headers a function sets
Headers(plan, key) ==
    {<<"Authorization", "Bearer " \o key>>}
        \cup (IF plan.contentType = "" THEN {}
              ELSE {<<"Content-Type", plan.contentType>>})
        \cup (IF plan.beta THEN {<<"OpenAI-Beta", "assistants=v2">>} ELSE {})

----------------------------------------------------------------------------
(* the universe of one run: who calls, with what, and what the server says *)

MaxLimit == 1

\* the largest number of files attached to a vector store on the server
MaxAttached == 101

BlankArgs ==
    [ path |-> "", content |-> "", boundary |-> "", id |-> "", id2 |-> "",
      limit |-> 0, order |-> "", after |-> "", before |-> "", runID |-> "",
      role |-> "", text |-> "", name |-> "", include |-> <<>> ]

NoReq     == [method |-> "", url |-> "", headers |-> {}, body |-> NoBody]
NoResp    == [err |-> "", code |-> 0, status |-> "", body |-> "", data |-> <<>>]
NoDecoded == [into |-> "", ok |-> FALSE, val |-> <<>>]
NoRet     == [val |-> <<>>, err |-> NilErr]

HTTPResponse(code, body) ==
    [err |-> "", code |-> code, status |-> StatusLine(code), body |-> body,
     data |-> <<>>]

TransportError == [err |-> "dial tcp: connection refused", code |-> 0,
                   status |-> "", body |-> "", data |-> <<>>]

\* what client.CreateEmbeddings of the library can hand back
LibraryOutcomes ==
    { [err |-> "status code 401", data |-> <<>>],
      [err |-> "", data |-> <<>>],
      [err |-> "", data |-> << <<>> >>],
      [err |-> "", data |-> << <<1, 2>> >>],
      [err |-> "", data |-> << <<3>> >>] }

\* one caller at a time, the whole range of arguments and answers
Sequential ==
    [ callers |-> {"c1"},
      functions |-> Functions,
      keys |-> {"sk-test"},
      paths |-> {"a.ts", "a.tsx", "b.txt", "gone.tsx", "q\"t.ts"},
      contents |-> {"AB", "CD"},
      boundaries |-> {"b1", "b2"},
      ids |-> {"id-1", "%zz"},
      strings |-> {"", "x"},
      cursors |-> {"", "x", "a&b=c d"},
      limits |-> (0 - 1)..MaxLimit,
      includes |-> {<<>>, <<"f">>, <<"f", "g">>},
      codes |-> {200, 201, 404},
      bodies |-> {BodyText, BodyEmpty, BodyFile, BodyBadID, BodyList, BodyData,
                  BodyErrFile, BodyErrOther, BodyErrString,
                  BodyEmbedding1, BodyEmbedding2},
      library |-> LibraryOutcomes,
      attached |-> 2 ]

\* two callers at once, a narrower range: one or two functions of every file
Concurrent ==
    [ callers |-> {"c1", "c2"},
      functions |-> {"UploadFile", "ListFiles", "DeleteFile", "CreateVectorStoreFile",
                     "CreateMessage", "RetrieveRun", "CreateEmbedding",
                     "CreateVectorForFile", "RetrieveVectorStore",
                     "UploadFile_part000", "CreateAssistant", "ListMessages_part002"},
      keys |-> {"sk-test"},
      paths |-> {"a.ts", "b.txt", "a.tsx"},
      contents |-> {"AB"},
      boundaries |-> {"b1"},
      ids |-> {"id-1"},
      strings |-> {"x"},
      cursors |-> {"x"},
      limits |-> {MaxLimit},
      includes |-> {<<>>},
      codes |-> {200, 404},
      bodies |-> {BodyText, BodyEmbedding1, BodyEmbedding2},
      library |-> {o \in LibraryOutcomes : o.data # << <<>> >>},
      attached |-> 2 ]

\* one caller of the vector store file functions, and a server whose vector
\* stores each hold n attached files
Attached(n) ==
    [ Sequential EXCEPT
        !.functions = {"ListVectorStoreFiles", "CreateVectorStoreFile",
                       "RetrieveVectorStoreFile", "DeleteVectorStoreFile",
                       "CreateEmbedding"},
        !.ids = {"id-1"},
        !.attached = n ]

AttachedCounts == {0, 1, MaxAttached - 1, MaxAttached}

\* the argument records a caller may pass to f
ArgsFor(f, w) ==
    CASE f \in {"UploadFile", "UploadFile_part000"} ->
           {[BlankArgs EXCEPT !.path = x, !.boundary = b] :
                x \in w.paths, b \in w.boundaries}
      [] f = "UploadContent" ->
           {[BlankArgs EXCEPT !.path = x, !.content = c, !.boundary = b] :
                x \in w.paths, c \in w.contents, b \in w.boundaries}
      [] f \in {"CreateEmbedding", "CreateVectorForFile"} ->
           {[BlankArgs EXCEPT !.path = x] : x \in w.paths}
      [] f \in {"ListFiles", "ListFiles_part000", "ListAssistants"} ->
           {BlankArgs}
      [] f \in {"RetrieveFile", "RetrieveFile_part000", "DeleteFile",
                "DeleteFile_part000", "ListVectorStoreFiles", "RetrieveVectorStore",
                "DeleteVectorStore", "DeleteAssistant"} ->
           {[BlankArgs EXCEPT !.id = i] : i \in w.ids}
      [] f \in {"CreateVectorStoreFile", "RetrieveVectorStoreFile",
                "DeleteVectorStoreFile", "RetrieveRun"} ->
           {[BlankArgs EXCEPT !.id = i, !.id2 = j] : i \in w.ids, j \in w.ids}
      [] f = "CreateThread" ->
           {[BlankArgs EXCEPT !.text = t] : t \in w.strings}
      [] f = "CreateMessage" ->
           {[BlankArgs EXCEPT !.id = i, !.role = r, !.text = t] :
                i \in (w.strings \cap {""}) \cup {"id-1"}, r \in w.strings, t \in w.strings}
      [] f \in {"ListMessages", "ListMessages_part002"} ->
           {[BlankArgs EXCEPT !.id = "id-1", !.limit = l, !.order = o,
                              !.after = x, !.before = y, !.runID = z] :
                l \in w.limits, o \in w.cursors, x \in w.cursors,
                y \in w.cursors, z \in w.cursors}
      [] f = "ListVectorStores" ->
           {[BlankArgs EXCEPT !.limit = l, !.order = o, !.after = x, !.before = y] :
                l \in w.limits, o \in w.cursors, x \in w.cursors, y \in w.cursors}
      [] f = "CreateRun" ->
           {[BlankArgs EXCEPT !.id = i, !.id2 = "asst-1", !.include = inc] :
                i \in w.ids, inc \in w.includes}
      [] f \in {"CreateVectorStore", "CreateAssistant"} ->
           {[BlankArgs EXCEPT !.name = n] : n \in w.strings}

\* strconv.Atoi on a string of digits
RECURSIVE Atoi(_)
Atoi(s) ==
    IF s = "" THEN 0
    ELSE Atoi(SubSeq(s, 1, Len(s) - 1)) * 10
           + (CHOOSE d \in 0..9 :
                 SubSeq("0123456789", d + 1, d + 1) = SubSeq(s, Len(s), Len(s)))

\* the request lists the files of a vector store: GET .../vector_stores/{id}/files?...
IsListVectorStoreFiles(request) ==
    /\ request.method = "GET"
    /\ HasPrefix(request.url, BaseURL \o "/vector_stores/")
    /\ Contains(request.url, "/files?limit=")

\* the limit parameter of such a request (it is the last of the query)
ListLimit(url) ==
    LET i == CHOOSE i \in 1..(Len(url) - 5) : SubSeq(url, i, i + 5) = "limit="
    IN  Atoi(SubSeq(url, i + 6, Len(url)))

\* the page the API answers with when the store holds n files: the first
\* limit of them, and has_more when there are more
ServerPage(n, url) ==
    LET k == IF n < ListLimit(url) THEN n ELSE ListLimit(url)
    IN  PageText(k, n > k)

\* the answers client.Do may come back with: a transport error, any status
\* with any body, and to a list request the page of the server
Responses(w, request) ==
    {TransportError} \cup {HTTPResponse(c, b) : c \in w.codes, b \in w.bodies}
       \cup (IF IsListVectorStoreFiles(request)
             THEN {HTTPResponse(StatusOK, ServerPage(w.attached, request.url))}
             ELSE {})

----------------------------------------------------------------------------
(* the steps of a call *)

Start(w) ==
    /\ world = w
    /\ openaiAPIKey \in w.keys
    /\ pc = [p \in Procs |-> "idle"]
    /\ fn = [p \in Procs |-> ""]
    /\ args = [p \in Procs |-> BlankArgs]
    /\ req = [p \in Procs |-> NoReq]
    /\ resp = [p \in Procs |-> NoResp]
    /\ decoded = [p \in Procs |-> NoDecoded]
    /\ ret = [p \in Procs |-> NoRet]
    /\ steps = [p \in Procs |-> <<>>]
    /\ nsent = [p \in Procs |-> 0]

Init == Start(Sequential)

InitConcurrent == Start(Concurrent)

InitAttached == \E n \in AttachedCounts : Start(Attached(n))

\* a caller enters one of the functions
Call(p) ==
    /\ p \in world.callers
    /\ pc[p] = "idle"
    /\ \E f \in world.functions : \E a \in ArgsFor(f, world) :
          /\ fn' = [fn EXCEPT ![p] = f]
          /\ args' = [args EXCEPT ![p] = a]
    /\ pc' = [pc EXCEPT ![p] = "called"]
    /\ UNCHANGED <<openaiAPIKey, world, req, resp, decoded, ret, steps, nsent>>

\* everything up to and including http.NewRequest: argument checks, reading
\* the file, marshalling the payload, the URL, the request
Build(p) ==
    /\ pc[p] = "called"
    /\ LET plan == Plan(fn[p], args[p])
       IN  IF plan.pre # ""
           THEN /\ ret' = [ret EXCEPT ![p] = Failure(plan, Errorf(plan.pre))]
                /\ pc' = [pc EXCEPT ![p] = "done"]
                /\ UNCHANGED <<req, steps>>
           ELSE IF ~plan.library /\ ~NewRequestOK(plan.url)
           THEN /\ ret' = [ret EXCEPT ![p] =
                              Failure(plan, Errorf(plan.newReqErr \o "invalid URL escape"))]
                /\ pc' = [pc EXCEPT ![p] = "done"]
                /\ UNCHANGED <<req, steps>>
           ELSE /\ req' = [req EXCEPT ![p] =
                              [method |-> plan.method, url |-> plan.url,
                               headers |-> {}, body |-> plan.body]]
                /\ steps' = [steps EXCEPT ![p] = Append(@, "build")]
                /\ pc' = [pc EXCEPT ![p] = "built"]
                /\ UNCHANGED ret
    /\ UNCHANGED <<openaiAPIKey, world, fn, args, resp, decoded, nsent>>

\* the req.Header.Set lines
SetHeaders(p) ==
    /\ pc[p] = "built"
    /\ ~Plan(fn[p], args[p]).library
    /\ req' = [req EXCEPT ![p].headers = Headers(Plan(fn[p], args[p]), openaiAPIKey)]
    /\ steps' = [steps EXCEPT ![p] = Append(@, "headers")]
    /\ pc' = [pc EXCEPT ![p] = "ready"]
    /\ UNCHANGED <<openaiAPIKey, world, fn, args, resp, decoded, ret, nsent>>

\* a Send that tries again after a transport error
Send_Retry(p) ==
    /\ pc[p] = "ready"
    /\ \E r \in Responses(world, req[p]) :
          /\ resp' = [resp EXCEPT ![p] = r]
          /\ pc' = [pc EXCEPT ![p] = IF r.err # "" THEN "ready" ELSE "sent"]
    /\ nsent' = [nsent EXCEPT ![p] = @ + 1]
    /\ steps' = [steps EXCEPT ![p] = Append(@, "send")]
    /\ UNCHANGED <<openaiAPIKey, world, fn, args, req, decoded, ret>>

\* a Send that keeps the response in a place all callers share
Send_SharedResponse(p) ==
    /\ pc[p] = "ready"
    /\ \E r \in Responses(world, req[p]) :
          /\ resp' = [q \in Procs |-> r]
          /\ IF r.err # ""
             THEN /\ ret' = [ret EXCEPT ![p] =
                                Failure(Plan(fn[p], args[p]),
                                        Errorf(Plan(fn[p], args[p]).sendErr \o r.err))]
                  /\ pc' = [pc EXCEPT ![p] = "done"]
             ELSE /\ pc' = [pc EXCEPT ![p] = "sent"]
                  /\ UNCHANGED ret
    /\ nsent' = [nsent EXCEPT ![p] = @ + 1]
    /\ steps' = [steps EXCEPT ![p] = Append(@, "send")]
    /\ UNCHANGED <<openaiAPIKey, world, fn, args, req, decoded>>

\* client := &http.Client{}; resp, err := client.Do(req), and the return on err
Send(p) ==
    /\ pc[p] = "ready"
    /\ \E r \in Responses(world, req[p]) :
          /\ resp' = [resp EXCEPT ![p] = r]
          /\ IF r.err # ""
             THEN /\ ret' = [ret EXCEPT ![p] =
                                Failure(Plan(fn[p], args[p]),
                                        Errorf(Plan(fn[p], args[p]).sendErr \o r.err))]
                  /\ pc' = [pc EXCEPT ![p] = "done"]
             ELSE /\ pc' = [pc EXCEPT ![p] = "sent"]
                  /\ UNCHANGED ret
    /\ nsent' = [nsent EXCEPT ![p] = @ + 1]
    /\ steps' = [steps EXCEPT ![p] = Append(@, "send")]
    /\ UNCHANGED <<openaiAPIKey, world, fn, args, req, decoded>>

\* the status check; a function that decodes nothing returns nil right after it
CheckStatus(p) ==
    /\ pc[p] = "sent"
    /\ LET plan == Plan(fn[p], args[p])
       IN  IF ~StatusAccepted(plan, resp[p])
           THEN /\ ret' = [ret EXCEPT ![p] =
                             Failure(plan,
                                     IF fn[p] = "CreateVectorStoreFile"
                                     THEN VectorStoreFileError(plan, args[p], resp[p])
                                     ELSE StatusError(plan, resp[p]))]
                /\ decoded' = [decoded EXCEPT ![p] =
                                 IF fn[p] = "CreateVectorStoreFile"
                                 THEN [into |-> "ErrorResponse",
                                       ok |-> Decode(plan.unit, "ErrorResponse",
                                                     resp[p].body).ok,
                                       val |-> <<>>]
                                 ELSE @]
                /\ pc' = [pc EXCEPT ![p] = "done"]
           ELSE IF plan.target = ""
           THEN /\ ret' = [ret EXCEPT ![p] = [val |-> <<>>, err |-> NilErr]]
                /\ pc' = [pc EXCEPT ![p] = "done"]
                /\ UNCHANGED decoded
           ELSE /\ pc' = [pc EXCEPT ![p] = "checked"]
                /\ UNCHANGED <<ret, decoded>>
    /\ steps' = [steps EXCEPT ![p] = Append(@, "check")]
    /\ UNCHANGED <<openaiAPIKey, world, fn, args, req, resp, nsent>>

\* a DecodeBody that does not wait for the status check
DecodeBody_Unchecked(p) ==
    /\ pc[p] \in {"sent", "checked"}
    /\ Plan(fn[p], args[p]).target # ""
    /\ LET plan == Plan(fn[p], args[p])
           d == Decode(plan.unit, plan.target, resp[p].body)
       IN  /\ decoded' = [decoded EXCEPT ![p] =
                            [into |-> plan.target, ok |-> d.ok, val |-> <<d.val>>]]
           /\ ret' = [ret EXCEPT ![p] =
                        IF d.ok THEN Result(plan, args[p], d.val)
                        ELSE Failure(plan, Errorf(plan.decodeErr \o "invalid JSON"))]
    /\ steps' = [steps EXCEPT ![p] = Append(@, "decode")]
    /\ pc' = [pc EXCEPT ![p] = "done"]
    /\ UNCHANGED <<openaiAPIKey, world, fn, args, req, resp, nsent>>

\* json.NewDecoder(resp.Body).Decode(&x) and the rest of the function
DecodeBody(p) ==
    /\ pc[p] = "checked"
    /\ LET plan == Plan(fn[p], args[p])
           d == Decode(plan.unit, plan.target, resp[p].body)
       IN  /\ decoded' = [decoded EXCEPT ![p] =
                            [into |-> plan.target, ok |-> d.ok, val |-> <<d.val>>]]
           /\ ret' = [ret EXCEPT ![p] =
                        IF d.ok THEN Result(plan, args[p], d.val)
                        ELSE Failure(plan, Errorf(plan.decodeErr \o "invalid JSON"))]
    /\ steps' = [steps EXCEPT ![p] = Append(@, "decode")]
    /\ pc' = [pc EXCEPT ![p] = "done"]
    /\ UNCHANGED <<openaiAPIKey, world, fn, args, req, resp, nsent>>

\* CreateEmbedding hands the exchange to the library client
LibraryCall(p) ==
    /\ pc[p] = "built"
    /\ Plan(fn[p], args[p]).library
    /\ \E r \in world.library :
          /\ resp' = [resp EXCEPT ![p] = [NoResp EXCEPT !.err = r.err, !.data = r.data]]
          /\ ret' = [ret EXCEPT ![p] = LibraryResult(Plan(fn[p], args[p]), args[p], r)]
    /\ nsent' = [nsent EXCEPT ![p] = @ + 1]
    /\ steps' = [steps EXCEPT ![p] = Append(@, "library")]
    /\ pc' = [pc EXCEPT ![p] = "done"]
    /\ UNCHANGED <<openaiAPIKey, world, fn, args, req, decoded>>

\* the caller has the result and is free for its next call
Return(p) ==
    /\ pc[p] = "done"
    /\ pc' = [pc EXCEPT ![p] = "idle"]
    /\ fn' = [fn EXCEPT ![p] = ""]
    /\ args' = [args EXCEPT ![p] = BlankArgs]
    /\ req' = [req EXCEPT ![p] = NoReq]
    /\ resp' = [resp EXCEPT ![p] = NoResp]
    /\ decoded' = [decoded EXCEPT ![p] = NoDecoded]
    /\ ret' = [ret EXCEPT ![p] = NoRet]
    /\ steps' = [steps EXCEPT ![p] = <<>>]
    /\ nsent' = [nsent EXCEPT ![p] = 0]
    /\ UNCHANGED <<openaiAPIKey, world>>

Next ==
    \E p \in Procs :
        \/ Call(p)
        \/ Build(p)
        \/ SetHeaders(p)
        \/ Send(p)
        \/ CheckStatus(p)
        \/ DecodeBody(p)
        \/ LibraryCall(p)
        \/ Return(p)

Spec == Init /\ [][Next]_vars

SpecConcurrent == InitConcurrent /\ [][Next]_vars

SpecAttached == InitAttached /\ [][Next]_vars

----------------------------------------------------------------------------
(* properties *)

Range(s) == {s[i] : i \in 1..Len(s)}

IsPrefix(s, t) == Len(s) <= Len(t) /\ SubSeq(t, 1, Len(s)) = s

StepOrder == <<"build", "headers", "send", "check", "decode">>

Succeeded(p) == pc[p] = "done" /\ ret[p].err.type = "nil"

Failed(p) == pc[p] = "done" /\ ret[p].err.type # "nil"

DeleteFunctions ==
    {"DeleteFile", "DeleteFile_part000", "DeleteVectorStore",
     "DeleteVectorStoreFile", "DeleteAssistant"}

\* the call got an HTTP response and ran its status check
HasChecked(p) == "check" \in Range(steps[p])

\* ... and the check let the response through: the call went on to decode,
\* or, having nothing to decode, returned nil
CheckPassed(p) ==
    /\ HasChecked(p)
    /\ \/ pc[p] = "checked"
       \/ "decode" \in Range(steps[p])
       \/ fn[p] \in DeleteFunctions /\ Succeeded(p)

\* the statuses the check of f lets through, as the amended C1 and C2 have it
Accepted(f) == IF f = "CreateMessage" THEN {200, 201} ELSE {200}

\* C1 as stated: in every call of every function the steps run in the order
\* build, headers, send, check, decode, and a call that succeeds has run each
\* of the five once.  (CreateEmbedding is left out here: what the library
\* client does inside its one call is not the repository's code.)
C1_Original ==
    \A p \in Procs :
        fn[p] # "CreateEmbedding" =>
            /\ IsPrefix(steps[p], StepOrder)
            /\ Succeeded(p) => steps[p] = StepOrder

\* C1 (amended): every function that talks HTTP itself runs build, headers,
\* send, check, decode in that order, each at most once; the body is decoded
\* into the result only after the request was sent and the status check let
\* it through; a call that succeeds has run all five, except that the delete
\* functions have no decode step.  CreateEmbedding builds its request and
\* hands the rest to the library client.
C1_StepOrder ==
    \A p \in Procs :
        /\ fn[p] = "CreateEmbedding" => IsPrefix(steps[p], <<"build", "library">>)
        /\ fn[p] # "CreateEmbedding" => IsPrefix(steps[p], StepOrder)
        /\ decoded[p].into \notin {"", "ErrorResponse"} => "decode" \in Range(steps[p])
        /\ "decode" \in Range(steps[p]) =>
              /\ nsent[p] = 1
              /\ resp[p].err = ""
              /\ resp[p].code \in Accepted(fn[p])
        /\ Succeeded(p) =>
              steps[p] = (IF fn[p] = "CreateEmbedding" THEN <<"build", "library">>
                          ELSE IF fn[p] \in DeleteFunctions THEN SubSeq(StepOrder, 1, 4)
                          ELSE StepOrder)

\* a call that succeeded after all five steps, with the body decoded
C1_Witness ==
    \E p \in Procs :
        Succeeded(p) /\ steps[p] = StepOrder /\ decoded[p].ok /\ fn[p] = "RetrieveRun"

\* C2 as stated: every function applies the same status check, which a
\* response passes exactly when its status is 200, so that no call succeeds
\* on another status.
C2_Original ==
    \A p \in Procs :
        HasChecked(p) =>
           /\ CheckPassed(p) <=> resp[p].code = 200
           /\ Succeeded(p) => resp[p].code = 200

\* C2 (amended): every function that checks the status lets a response
\* through exactly when its status is 200, except CreateMessage, whose check
\* lets 200 and 201 through; a call succeeds only on a status its check lets
\* through and fails on every other.
C2_StatusCheck ==
    \A p \in Procs :
        HasChecked(p) =>
           /\ CheckPassed(p) <=> resp[p].code \in Accepted(fn[p])
           /\ Succeeded(p) => resp[p].code \in Accepted(fn[p])
           /\ (pc[p] = "done" /\ resp[p].code \notin Accepted(fn[p])) => Failed(p)

\* CreateMessage succeeded on a 201
C2_Witness ==
    \E p \in Procs :
        fn[p] = "CreateMessage" /\ Succeeded(p) /\ resp[p].code = 201

\* C3: a call never sends twice, whatever the outcome; when it returns it has
\* sent exactly one request if its request was built and none otherwise.
C3_NoRetry ==
    \A p \in Procs :
        /\ nsent[p] <= 1
        /\ nsent[p] = 1 <=> (Range(steps[p]) \cap {"send", "library"} # {})
        /\ pc[p] = "done" =>
              nsent[p] = (IF "build" \in Range(steps[p]) THEN 1 ELSE 0)

\* a call that met a transport error returned after its one request
C3_Witness ==
    \E p \in Procs :
        /\ Failed(p) /\ resp[p].err # "" /\ nsent[p] = 1
        /\ fn[p] = "UploadContent"

\* the locals of one call
Locals(q) ==
    <<pc[q], fn[q], args[q], req[q], resp[q], decoded[q], ret[q], steps[q], nsent[q]>>

\* the request and the return value of the call f(a) made on its own, with
\* the package's key, when the server (or the library) answers r
RunAlone(f, a, key, r) ==
    LET plan  == Plan(f, a)
        built == [method |-> plan.method, url |-> plan.url,
                  headers |-> {}, body |-> plan.body]
        sent  == [built EXCEPT !.headers = Headers(plan, key)]
        d     == Decode(plan.unit, plan.target, r.body)
    IN  IF plan.pre # ""
        THEN [req |-> NoReq, ret |-> Failure(plan, Errorf(plan.pre))]
        ELSE IF plan.library
        THEN [req |-> built, ret |-> LibraryResult(plan, a, r)]
        ELSE IF ~NewRequestOK(plan.url)
        THEN [req |-> NoReq,
              ret |-> Failure(plan, Errorf(plan.newReqErr \o "invalid URL escape"))]
        ELSE IF r.err # ""
        THEN [req |-> sent, ret |-> Failure(plan, Errorf(plan.sendErr \o r.err))]
        ELSE IF r.code \notin Accepted(f)
        THEN [req |-> sent,
              ret |-> Failure(plan, IF f = "CreateVectorStoreFile"
                                    THEN VectorStoreFileError(plan, a, r)
                                    ELSE StatusError(plan, r))]
        ELSE IF f \in DeleteFunctions
        THEN [req |-> sent, ret |-> [val |-> <<>>, err |-> NilErr]]
        ELSE IF ~d.ok
        THEN [req |-> sent,
              ret |-> Failure(plan, Errorf(plan.decodeErr \o "invalid JSON"))]
        ELSE [req |-> sent, ret |-> Result(plan, a, d.val)]

\* C4: calls share no mutable state.  No step writes openaiAPIKey, a step of
\* one call leaves every local of every other call as it was, and under any
\* interleaving a finished call holds the request and the return value of the
\* same call made alone against the same answer.
C4_Isolated ==
    /\ [](\A p \in Procs :
             pc[p] = "done" =>
                /\ openaiAPIKey \in world.keys
                /\ [req |-> req[p], ret |-> ret[p]]
                      = RunAlone(fn[p], args[p], openaiAPIKey, resp[p]))
    /\ [][ /\ openaiAPIKey' = openaiAPIKey
           /\ \A q \in Procs : pc'[q] = pc[q] => Locals(q)' = Locals(q) ]_vars

\* two calls in flight at once came back, each with its own result
C4_Witness ==
    /\ fn["c1"] = "RetrieveVectorStore" /\ Succeeded("c1")
    /\ fn["c2"] = "ListFiles" /\ Failed("c2")
    /\ resp["c1"] # resp["c2"]

\* the functions of C5: those that return a typed result
TypedFunctions ==
    {"UploadFile", "UploadContent", "RetrieveFile", "ListFiles", "CreateThread",
     "CreateRun", "RetrieveRun", "CreateVectorStore", "RetrieveVectorStore",
     "ListVectorStores", "CreateVectorStoreFile", "ListVectorStoreFiles",
     "RetrieveVectorStoreFile", "ListAssistants", "ListMessages",
     "UploadFile_part000", "RetrieveFile_part000", "ListFiles_part000",
     "ListMessages_part002"}

\* the call got a response whose status is not 200 and has returned
Non200(p) ==
    /\ pc[p] = "done"
    /\ HasChecked(p)
    /\ resp[p].code # 200

\* the error carries the status line and the text of the body
CarriesStatusAndBody(p) ==
    /\ Contains(ret[p].err.msg, resp[p].status)
    /\ Contains(ret[p].err.msg, resp[p].body)

\* the body was decoded into the type the function returns
DecodedIntoResult(p) == decoded[p].into \notin {"", "ErrorResponse"}

\* C5 as stated: in every function that returns a typed result, a response
\* with a status other than 200 yields a non-nil error that carries the
\* status line and the body text, and the body is not decoded into the result.
C5_Original ==
    \A p \in Procs :
        (fn[p] \in TypedFunctions /\ Non200(p)) =>
            /\ Failed(p)
            /\ CarriesStatusAndBody(p)
            /\ ~DecodedIntoResult(p)

\* C5 (amended): as stated for every listed function but CreateVectorStoreFile.
\* CreateVectorStoreFile also returns a nil result and a non-nil error and
\* never decodes the body into a VectorStoreFile, but its error carries the
\* status line and the body text only when the body does not unmarshal into
\* an ErrorResponse.
C5_StatusError ==
    \A p \in Procs :
        (fn[p] \in TypedFunctions /\ Non200(p)) =>
            /\ Failed(p)
            /\ ret[p].val = ZeroVal(Plan(fn[p], args[p]).result)
            /\ ~DecodedIntoResult(p)
            /\ fn[p] # "CreateVectorStoreFile" => CarriesStatusAndBody(p)
            /\ fn[p] = "CreateVectorStoreFile" =>
                  /\ decoded[p].into = "ErrorResponse"
                  /\ ~decoded[p].ok => CarriesStatusAndBody(p)

\* RetrieveRun met a 404 and returned the status line and the body in its error
C5_Witness ==
    \E p \in Procs :
        /\ fn[p] = "RetrieveRun" /\ Non200(p) /\ resp[p].code = 404
        /\ resp[p].body = BodyErrOther
        /\ ret[p].err.msg = "run retrieval failed with status 404 Not Found: "
                                \o BodyErrOther

\* the compilation unit that declares the same types a second time
OtherUnit(unit) ==
    CASE unit = "files.go" -> "part_000"
      [] unit = "part_000" -> "files.go"
      [] unit = "message.go" -> "part_002"
      [] unit = "part_002" -> "message.go"
      [] OTHER -> unit

\* C6 as stated: the two File definitions differ in a field name, a field
\* type or a JSON key, and so do the two Message definitions: whenever a call
\* decodes into its File or its Message, the declaration of the other file is
\* a different one.
C6_Original ==
    \A p \in Procs :
        LET unit == Plan(fn[p], args[p]).unit
        IN  /\ decoded[p].into \in {"File", "FileList"} =>
                  StructDef(unit, "File") # StructDef(OtherUnit(unit), "File")
            /\ decoded[p].into \in {"MessageList", "CreateMessageResult"} =>
                  StructDef(unit, "Message") # StructDef(OtherUnit(unit), "Message")

\* C6 (amended): the duplicated definitions are the same declaration written
\* twice.  The two File definitions agree in every field name, field type and
\* JSON key, and so do the two Message definitions with their MessageContent
\* and ContentText; whatever body a function decodes into one of them, the
\* twin definition decodes into the same value.
C6_SameDefinitions ==
    /\ File = File_part000
    /\ Message = Message_part002
    /\ MessageContent = MessageContent_part002
    /\ ContentText = ContentText_part002
    /\ \A p \in Procs :
          decoded[p].into \in {"File", "FileList", "MessageList", "CreateMessageResult"} =>
             LET twin == Decode(OtherUnit(Plan(fn[p], args[p]).unit),
                                decoded[p].into, resp[p].body)
             IN  /\ decoded[p].ok = twin.ok
                 /\ decoded[p].val = <<twin.val>>

\* the second RetrieveFile decoded a file with its name into its own File
C6_Witness ==
    \E p \in Procs :
        /\ fn[p] = "RetrieveFile_part000" /\ Succeeded(p)
        /\ decoded[p].into = "File"
        /\ decoded[p].val[1].FileName = "a.ts"
        /\ decoded[p].val[1].Bytes = 2

EmbeddingFunctions == {"CreateEmbedding", "CreateVectorForFile"}

\* C7 as stated: the ID CreateVectorForFile returns is a function of the
\* embedding the API returned, so two successful calls that received
\* different embeddings return different IDs.
C7_IDFromEmbedding ==
    \A p, q \in Procs :
        ( /\ fn[p] = "CreateVectorForFile" /\ Succeeded(p)
          /\ fn[q] = "CreateVectorForFile" /\ Succeeded(q)
          /\ decoded[p].val[1].Embedding # decoded[q].val[1].Embedding )
        => ret[p].val # ret[q].val

C9_UploadFile ==
    \A p \in Procs :
        (fn[p] = "UploadFile" /\ pc[p] # "called") =>
           LET path == args[p].path
               file == ReadFile(path)
               part == req[p].body.parts[2]
           IN  IF ~file.ok
               THEN /\ Failed(p)
                    /\ ret[p].val = ""
                    /\ nsent[p] = 0
                    /\ req[p] = NoReq
               ELSE /\ "build" \in Range(steps[p])
                    /\ req[p].body.kind = "multipart"
                    /\ part.field = "file"
                    /\ part.data = file.content
                    /\ HasSuffix(path, ".tsx") =>
                          /\ part.filename \o "x" = path
                          /\ HasSuffix(part.filename, ".ts")
                    /\ ~HasSuffix(path, ".tsx") => part.filename = path

\* a.tsx went out as a.ts with the content of a.tsx
C9_Witness ==
    \E p \in Procs :
        /\ fn[p] = "UploadFile" /\ args[p].path = "a.tsx" /\ nsent[p] = 1
        /\ req[p].body.parts[2].filename = "a.ts"
        /\ req[p].body.parts[2].data = "CD"

\* C10: CreateMessage with an empty ThreadID, Role or Content returns a nil
\* message and an error that names the first missing one, in the order
\* threadID, role, content, and sends nothing; the ThreadID goes into the URL
\* and never into the body.
C10_CreateMessage ==
    \A p \in Procs :
        (fn[p] = "CreateMessage" /\ pc[p] # "called") =>
           LET a == args[p]
           IN  IF a.id = "" \/ a.role = "" \/ a.text = ""
               THEN /\ Failed(p)
                    /\ ret[p].val = <<>>
                    /\ ret[p].err.msg =
                          (IF a.id = "" THEN "threadID is required"
                           ELSE IF a.role = "" THEN "role is required"
                           ELSE "content is required")
                    /\ nsent[p] = 0
                    /\ steps[p] = <<>>
                    /\ req[p] = NoReq
               ELSE /\ "build" \in Range(steps[p])
                    /\ Contains(req[p].url, "/threads/" \o a.id \o "/")
                    /\ req[p].body.kind = "json"
                    /\ ~Contains(req[p].body.text, a.id)
                    /\ ~Contains(req[p].body.text, "thread")

\* thread ID and role both missing: the error names the thread ID
C10_Witness ==
    \E p \in Procs :
        /\ fn[p] = "CreateMessage" /\ Failed(p)
        /\ args[p].id = "" /\ args[p].role = "" /\ args[p].text = "x"
        /\ ret[p].err.msg = "threadID is required"

\* the call listed the files of a store and got the page of the server
ListedFromServer(p) ==
    /\ fn[p] = "ListVectorStoreFiles"
    /\ Succeeded(p)
    /\ resp[p].body = ServerPage(world.attached, req[p].url)

\* C11 as stated: ListVectorStoreFiles lists the files attached to the store:
\* when the store holds n files on the server, the list returned holds all n
\* of them, for every n.
C11_ListsAll ==
    \A p \in Procs :
        ListedFromServer(p) =>
            /\ Len(ret[p].val) = world.attached
            /\ {ret[p].val[i].ID : i \in 1..Len(ret[p].val)}
                  = {FileID(i) : i \in 1..world.attached}

\* the members of the error object of a body, read off the parsed JSON
ErrorMembers == {"message", "type", "param", "code"}

ErrorObject(body) ==
    LET v == ParseJSON(body)
    IN  IF v.kind = "object" /\ "error" \in DOMAIN v.val /\ v.val["error"].kind = "object"
        THEN v.val["error"].val
        ELSE NoKeys

\* the body is JSON that fits the error object: an object whose "error", when
\* it is there, is an object of strings
ParsesAsError(body) ==
    LET v == ParseJSON(body)
    IN  /\ v.kind \in {"object", "null"}
        /\ (v.kind = "object" /\ "error" \in DOMAIN v.val) =>
               /\ v.val["error"].kind \in {"object", "null"}
               /\ \A k \in ErrorMembers \cap DOMAIN ErrorObject(body) :
                      ErrorObject(body)[k].kind \in {"string", "null"}

ErrorMember(body, k) ==
    IF k \in DOMAIN ErrorObject(body) /\ ErrorObject(body)[k].kind = "string"
    THEN ErrorObject(body)[k].val
    ELSE ""

\* C12: on a status other than 200 CreateVectorStoreFile returns a nil
\* VectorStoreFile and one of three errors: the status line and the raw body
\* when the body does not parse as the error JSON; an UnsupportedFileTypeError
\* with the fileID argument as FileName when it parses and error.code is
\* "unsupported_file"; error.message alone otherwise.
C12_Classification ==
    \A p \in Procs :
        (fn[p] = "CreateVectorStoreFile" /\ Non200(p)) =>
            LET body == resp[p].body
                err  == ret[p].err
            IN  /\ ret[p].val = <<>>
                /\ err.type # "nil"
                /\ ~ParsesAsError(body) =>
                      /\ err.type = "error"
                      /\ err.msg = "vector store file creation failed with status "
                                      \o resp[p].status \o ": " \o body
                /\ (ParsesAsError(body) /\ ErrorMember(body, "code") = "unsupported_file") =>
                      /\ err.type = "UnsupportedFileTypeError"
                      /\ err.FileName = args[p].id2
                      /\ err.msg = "unsupported file type for file: " \o args[p].id2
                /\ (ParsesAsError(body) /\ ErrorMember(body, "code") # "unsupported_file") =>
                      /\ err.type = "error"
                      /\ err.msg = "vector store file creation failed: "
                                      \o ErrorMember(body, "message")

\* the server refused the file "%zz" of store "id-1" as unsupported
C12_Witness ==
    \E p \in Procs :
        /\ fn[p] = "CreateVectorStoreFile" /\ Non200(p)
        /\ resp[p].code = 404 /\ resp[p].body = BodyErrFile
        /\ args[p].id = "id-1" /\ args[p].id2 = "%zz"
        /\ ret[p].val = <<>>
        /\ ret[p].err.type = "UnsupportedFileTypeError"
        /\ ret[p].err.FileName = "%zz"

\* the "data" member of a body, decoded into the Message of message.go; the
\* zero Message when the body is an object without that member
DataMessage(body) ==
    LET v == ParseJSON(body)
    IN  IF v.kind = "object" /\ "data" \in DOMAIN v.val
        THEN DecodeValue("message.go", "Message", v.val["data"])
        ELSE [ok |-> v.kind \in {"object", "null"}, val |-> Zero("message.go", "Message")]

\* C13: the status check of CreateMessage lets 200 and 201 through and fails
\* the call on every other status, with a nil message and the body left alone.
\* On 200 and 201 the body is decoded and the call succeeds when it decodes:
\* it then returns a nil error and the Message decoded from the "data" member
\* of the body, the zero Message when the body is a JSON object without one.
C13_CreateMessage ==
    \A p \in Procs :
        (fn[p] = "CreateMessage" /\ HasChecked(p)) =>
            LET ok == resp[p].code \in {200, 201}
                m  == DataMessage(resp[p].body)
            IN  /\ CheckPassed(p) <=> ok
                /\ (pc[p] = "done" /\ ~ok) =>
                      /\ Failed(p)
                      /\ ret[p].val = <<>>
                      /\ decoded[p] = NoDecoded
                /\ (pc[p] = "done" /\ ok) =>
                      /\ Succeeded(p) <=> m.ok
                      /\ Succeeded(p) => ret[p] = [val |-> <<m.val>>, err |-> NilErr]
                      /\ Failed(p) =>
                            /\ ret[p].val = <<>>
                            /\ HasPrefix(ret[p].err.msg, "failed to decode message response: ")

\* a 201 whose body holds the message under "data": the call returned it
C13_Witness ==
    \E p \in Procs :
        /\ fn[p] = "CreateMessage" /\ Succeeded(p)
        /\ resp[p].code = 201 /\ resp[p].body = BodyData
        /\ ret[p].val[1].ID = "msg-1"
        /\ ret[p].val[1].Role = "user"
        /\ ret[p].val[1].ThreadID = ""

\* the query of a URL as its receiver reads it: the text after the first "?",
\* cut at every "&", each piece cut at its first "=", the value unescaped
IndexOf(s, c) ==
    IF \E i \in 1..Len(s) : SubSeq(s, i, i) = c
    THEN CHOOSE i \in 1..Len(s) :
            /\ SubSeq(s, i, i) = c
            /\ \A j \in 1..(i - 1) : SubSeq(s, j, j) # c
    ELSE 0

RawQuery(url) ==
    IF IndexOf(url, "?") = 0 THEN "" ELSE SubSeq(url, IndexOf(url, "?") + 1, Len(url))

RECURSIVE Split(_, _)
Split(s, sep) ==
    IF IndexOf(s, sep) = 0 THEN <<s>>
    ELSE <<SubSeq(s, 1, IndexOf(s, sep) - 1)>>
            \o Split(SubSeq(s, IndexOf(s, sep) + 1, Len(s)), sep)

RECURSIVE QueryUnescape(_)
QueryUnescape(s) ==
    IF s = "" THEN ""
    ELSE IF SubSeq(s, 1, 1) = "+" THEN " " \o QueryUnescape(SubSeq(s, 2, Len(s)))
    ELSE IF SubSeq(s, 1, 1) = "%" THEN
        (CASE SubSeq(s, 2, 3) = "25" -> "%"
           [] SubSeq(s, 2, 3) = "26" -> "&"
           [] SubSeq(s, 2, 3) = "2B" -> "+"
           [] SubSeq(s, 2, 3) = "2F" -> "/"
           [] SubSeq(s, 2, 3) = "3D" -> "="
           [] SubSeq(s, 2, 3) = "3F" -> "?"
           [] OTHER -> "%" \o SubSeq(s, 2, 3))
          \o QueryUnescape(SubSeq(s, 4, Len(s)))
    ELSE SubSeq(s, 1, 1) \o QueryUnescape(SubSeq(s, 2, Len(s)))

\* the parameters of a query text, as the set of <<key, value>> it holds
ParseQuery(raw) ==
    LET pieces == Split(raw, "&")
        key(x) == IF IndexOf(x, "=") = 0 THEN x ELSE SubSeq(x, 1, IndexOf(x, "=") - 1)
        val(x) == IF IndexOf(x, "=") = 0 THEN ""
                  ELSE SubSeq(x, IndexOf(x, "=") + 1, Len(x))
    IN  { <<QueryUnescape(key(pieces[i])), QueryUnescape(val(pieces[i]))>> :
              i \in {j \in 1..Len(pieces) : pieces[j] # ""} }

ListFunctions == {"ListVectorStores", "ListMessages", "ListMessages_part002"}

\* the parameters the claim expects for the arguments a of the list function f
ExpectedQuery(f, a) ==
    (IF a.limit > 0 THEN {<<"limit", Itoa(a.limit)>>} ELSE {})
      \cup (IF a.order # "" THEN {<<"order", a.order>>} ELSE {})
      \cup (IF a.after # "" THEN {<<"after", a.after>>} ELSE {})
      \cup (IF a.before # "" THEN {<<"before", a.before>>} ELSE {})
      \cup (IF f # "ListVectorStores" /\ a.runID # ""
            THEN {<<"run_id", a.runID>>} ELSE {})

RECURSIVE QuotedValue(_)
QuotedValue(s) ==
    IF s = "" \/ SubSeq(s, 1, 1) = "\"" THEN ""
    ELSE IF SubSeq(s, 1, 1) = "\\" /\ Len(s) >= 2
    THEN SubSeq(s, 2, 2) \o QuotedValue(SubSeq(s, 3, Len(s)))
    ELSE SubSeq(s, 1, 1) \o QuotedValue(SubSeq(s, 2, Len(s)))

DispositionParam(header, name) ==
    LET key == " " \o name \o "=\""
        at  == {i \in 1..(Len(header) - Len(key) + 1) :
                   SubSeq(header, i, i + Len(key) - 1) = key}
    IN  IF at = {} THEN <<>>
        ELSE <<QuotedValue(SubSeq(header, (CHOOSE i \in at : \A j \in at : i <= j)
                                              + Len(key), Len(header)))>>

\* the "id" member of a body, "" when the body is an object without one
IDMember(body) ==
    LET v == ParseJSON(body)
    IN  IF v.kind = "object" /\ "id" \in DOMAIN v.val /\ v.val["id"].kind = "string"
        THEN v.val["id"].val
        ELSE ""

\* C15: UploadContent sends a multipart form of two parts: first the field
\* purpose with the value "user_data", then the file field, with the path
\* argument as its file name and the given content as its bytes.  On a 200
\* whose body decodes it returns the id of the body and a nil error; whenever
\* it fails it returns "" and a non-nil error.
C15_UploadContent ==
    \A p \in Procs :
        (fn[p] = "UploadContent" /\ pc[p] # "called") =>
            LET parts == req[p].body.parts
            IN  /\ "build" \in Range(steps[p])
                /\ req[p].method = "POST"
                /\ req[p].url = BaseURL \o "/files"
                /\ req[p].body.kind = "multipart"
                /\ Len(parts) = 2
                /\ DispositionParam(parts[1].disposition, "name") = <<"purpose">>
                /\ DispositionParam(parts[1].disposition, "filename") = <<>>
                /\ parts[1].data = "user_data"
                /\ DispositionParam(parts[2].disposition, "name") = <<"file">>
                /\ DispositionParam(parts[2].disposition, "filename") = <<args[p].path>>
                /\ parts[2].data = args[p].content
                /\ "headers" \in Range(steps[p]) =>
                      <<"Content-Type", "multipart/form-data; boundary="
                                           \o req[p].body.boundary>> \in req[p].headers
                /\ Succeeded(p) =>
                      /\ resp[p].code = 200
                      /\ ret[p].val = IDMember(resp[p].body)
                /\ (pc[p] = "done" /\ resp[p].code = 200
                      /\ Decode("files.go", "File", resp[p].body).ok) => Succeeded(p)
                /\ Failed(p) => ret[p].val = ""
                /\ pc[p] = "done" => Succeeded(p) \/ Failed(p)

\* content uploaded under a name with a quote in it; the server's id came back
C15_Witness ==
    \E p \in Procs :
        /\ fn[p] = "UploadContent" /\ Succeeded(p)
        /\ args[p].path = "q\"t.ts" /\ args[p].content = "CD"
        /\ req[p].body.parts[2].disposition
              = "form-data; name=\"file\"; filename=\"q\\\"t.ts\""
        /\ resp[p].body = BodyFile
        /\ ret[p].val = "file-1"

====
